---- MODULE Spec2Model ----
(***************************************************************************)
(* A model of RhymeTagger (src/tagger.py): the engine object, its public   *)
(* operations new_model, add_to_model, train_model, save_model, load_model *)
(* and tag, and the algorithms they run.                                   *)
(*                                                                         *)
(* Conventions.                                                            *)
(*  - A Python string is a sequence of code points (naturals); Python's    *)
(*    string order is the lexicographic order of such sequences.           *)
(*  - A Python float is an exact rational <<num, den>> in lowest terms     *)
(*    with den > 0.                                                        *)
(*  - A dictionary is a function; its key set is the function's DOMAIN.    *)
(*    A defaultdict read of a missing key inserts the default, and the     *)
(*    model inserts it too.                                                *)
(*  - A dictionary key that Python keeps as an int is <<0, i>>, one that   *)
(*    it keeps as a str is <<1>> \o s.                                     *)
(***************************************************************************)
EXTENDS Integers, Sequences, FiniteSets, TLC

(***************************************************************************)
(* Strings                                                                 *)
(***************************************************************************)

RECURSIVE StrLess(_, _)
\* Python's s < t on strings.
StrLess(s, t) ==
    IF t = <<>> THEN FALSE
    ELSE IF s = <<>> THEN TRUE
    ELSE IF Head(s) # Head(t) THEN Head(s) < Head(t)
    ELSE StrLess(Tail(s), Tail(t))

\* tuple(sorted([a, b]))
SortedPair(a, b) == IF StrLess(b, a) THEN <<b, a>> ELSE <<a, b>>

\* F(v), where v is computed before F is applied
After(v, F(_)) == CHOOSE r \in {F(w) : w \in {v}} : TRUE

\* re.sub('[chars]', '', s)
Remove(s, chars) == SelectSeq(s, LAMBDA x : x \notin chars)

\* s.reverse()
Reverse(s) == [i \in 1..Len(s) |-> s[Len(s) + 1 - i]]

\* s[-k:] for k >= 0 (Python: s[-0:] is the whole of s)
LastK(s, k) ==
    IF k = 0 \/ k >= Len(s) THEN s ELSE SubSeq(s, Len(s) - k + 1, Len(s))

\* s[:k]
FirstK(s, k) == IF k >= Len(s) THEN s ELSE SubSeq(s, 1, k)

RECURSIVE SumSeq(_)
SumSeq(s) == IF s = <<>> THEN 0 ELSE Head(s) + SumSeq(Tail(s))

(***************************************************************************)
(* Rationals                                                               *)
(***************************************************************************)

Abs(a) == IF a < 0 THEN 0 - a ELSE a

RECURSIVE Gcd(_, _)
\* of a >= 0 and b >= 0
Gcd(a, b) == IF b = 0 THEN a ELSE Gcd(b, a % b)

\* n/d in lowest terms, for d > 0
Frac(n, d) ==
    LET g == Gcd(Abs(n), d)
    IN  IF n < 0 THEN <<0 - (Abs(n) \div g), d \div g>> ELSE <<n \div g, d \div g>>

RatLess(p, q) == p[1] * q[2] < q[1] * p[2]
RatLeq(p, q) == p[1] * q[2] <= q[1] * p[2]
RatMul(p, q) == Frac(p[1] * q[1], p[2] * q[2])
\* 1 - p
RatCompl(p) == Frac(p[2] - p[1], p[2])

Zero == <<0, 1>>
One == <<1, 1>>

(***************************************************************************)
(* Dictionaries                                                            *)
(***************************************************************************)

EmptyDict == <<>>

\* d[k] = v
Put(d, k, v) == [x \in DOMAIN d \cup {k} |-> IF x = k THEN v ELSE d[x]]

\* d.get(k, dflt)
Get(d, k, dflt) == IF k \in DOMAIN d THEN d[k] ELSE dflt

\* the dictionary after a defaultdict read d[k]
Touch(d, k, dflt) == IF k \in DOMAIN d THEN d ELSE Put(d, k, dflt)

\* d[k] += v on a defaultdict(int)
Inc(d, k, v) == Put(d, k, Get(d, k, 0) + v)

\* d[x][k] += v on a defaultdict(lambda: defaultdict(int))
Inc2(d, x, k, v) == Put(d, x, Inc(Get(d, x, EmptyDict), k, v))

\* dictionary keys
IntKey(i) == <<0, i>>
StrKey(s) == <<1>> \o s
IsIntKey(k) == k[1] = 0
\* the key 'g'
G == StrKey(<<103>>)

(***************************************************************************)
(* Phonetic fingerprint extractor                                          *)
(***************************************************************************)

\* the vowel class of define_syll_peaks: iyɨʉɯuɪʏʊeøɤoəɘɵɛœʌɔæɐaăɶɑɒɜ
Vowels ==
    {105, 121, 616, 649, 623, 117, 618, 655, 650, 101, 248, 612, 111, 601,
     600, 629, 603, 339, 652, 596, 230, 592, 97, 259, 630, 593, 594, 604}
\* the length marks ː and ˑ
LengthMarks == {720, 721}
\* the primary stress mark ˈ
StressMark == 712
\* the tie character '_'
TieChar == 95
\* the syllabicity mark chr(809)
SyllChar == 809
Space == 32

At(s, p) == IF p >= 1 /\ p <= Len(s) THEN s[p] ELSE -1

\* length of the match of  vowel [ːˑ]?  at p, 0 when there is none
VowelLen(s, p) ==
    IF At(s, p) \in Vowels
    THEN IF At(s, p + 1) \in LengthMarks THEN 2 ELSE 1
    ELSE 0

\* length of the match of self.syllable_peaks at p, where v1 is the length
\* of the vowel match at p: vowel-tie-vowel, else vowel, else any character
\* followed by chr(809)
PeakFrom(s, p, v1) ==
    LET v2 == IF v1 > 0 /\ At(s, p + v1) = TieChar
              THEN VowelLen(s, p + v1 + 1) ELSE 0
    IN  IF v2 > 0 THEN v1 + 1 + v2
        ELSE IF v1 > 0 THEN v1
        ELSE IF At(s, p) \notin {-1, 10} /\ At(s, p + 1) = SyllChar THEN 2
        ELSE 0

\* length of the match of self.syllable_peaks at p, 0 when there is none
PeakLen(s, p) == PeakFrom(s, p, VowelLen(s, p))

RECURSIVE SplitFrom(_, _, _)
\* one step of the scan at p, where m is the length of the peak at p
SplitAt(s, cur, p, m) ==
    IF m > 0
    THEN << SubSeq(s, cur, p - 1), SubSeq(s, p, p + m - 1) >>
             \o SplitFrom(s, p + m, p + m)
    ELSE SplitFrom(s, cur, p + 1)

\* re.split('(' + self.syllable_peaks + ')', s), scanning from p with the
\* current cluster starting at cur
SplitFrom(s, cur, p) ==
    IF p > Len(s) THEN << SubSeq(s, cur, Len(s)) >>
    ELSE SplitAt(s, cur, p, PeakLen(s, p))

\* ''.join(s.split(ch)[-1])
AfterLast(s, ch) ==
    SubSeq(s, 1 + Cardinality({i \in 1..Len(s) : \E j \in i..Len(s) : s[j] = ch}),
           Len(s))

\* components[-self.syll_max*2:] when len(components) > self.syll_max
Truncate(components, syll_max) ==
    IF Len(components) > syll_max
    THEN LastK(components, syll_max * 2)
    ELSE components

\* "Remove length-marks if required", "Remove stress if required", "Remove
\* spaces" and "Get rid of everything preceding the last stress"
AfterStress(ipa, vowel_length, stress) ==
    AfterLast(
        Remove(Remove(Remove(ipa, IF vowel_length THEN {} ELSE LengthMarks),
                      IF stress THEN {} ELSE {StressMark}),
               {Space}),
        StressMark)

\* "if components[0] == '': components.pop(0)"
PopEmpty(components) ==
    IF components[1] = <<>> THEN Tail(components) ELSE components

\* what _split_ipa_components returns for the components of the split: the
\* reversed components and the number of components before truncation
\* (reduplicant_length is half of it)
Fingerprint(components, syll_max) ==
    [components |-> Reverse(Truncate(components, syll_max)),
     count |-> Len(components)]

\* _split_ipa_components
SplitIpaComponents(ipa, vowel_length, stress, syll_max) ==
    Fingerprint(PopEmpty(SplitFrom(AfterStress(ipa, vowel_length, stress), 1, 1)),
                syll_max)

(***************************************************************************)
(* Text: tokens, the transcriber, the rhyme word, the final n-gram         *)
(***************************************************************************)

\* The words of the model's texts, as _transcription returns them (eSpeak's
\* IPA without the secondary stress marks):
\*   cat kˈat, hat hˈat, cut kˈʌt, put pˈʊt, it ɪt (unstressed),
\*   hippopotamus hɪpəpˈɒtəməs
Cat == <<99, 97, 116>>
Hat == <<104, 97, 116>>
Cut == <<99, 117, 116>>
Add == <<97, 100, 100>>
Odd == <<111, 100, 100>>
It == <<105, 116>>
Hippo == <<104, 105, 112, 112, 111, 112, 111, 116, 97, 109, 117, 115>>
Words == {Cat, Hat, Cut, Add, Odd, It, Hippo}

Espeak(w) ==
    CASE w = Cat -> <<107, 712, 97, 116>>
      [] w = Hat -> <<104, 712, 97, 116>>
      [] w = Cut -> <<107, 712, 652, 116>>
      [] w = Add -> <<712, 97, 100>>
      [] w = Odd -> <<712, 594, 100>>
      [] w = It -> <<618, 116>>
      [] w = Hippo -> <<104, 618, 112, 601, 112, 712, 594, 116, 601, 109, 601,
                        115>>

RECURSIVE Transcription(_)
\* _transcription of a text given as its tokens: the words' transcriptions
\* separated by spaces
Transcription(tokens) ==
    IF tokens = <<>> THEN <<>>
    ELSE IF Len(tokens) = 1 THEN Espeak(tokens[1])
    ELSE Espeak(Head(tokens)) \o <<Space>> \o Transcription(Tail(tokens))

\* the absent rhyme word (None)
NoWord == <<>>

\* _get_rhyme_word of a line given as its tokens (lower case, no punctuation)
GetRhymeWord(tokens) == IF tokens = <<>> THEN NoWord ELSE tokens[Len(tokens)]

\* _final_ngram
FinalNgram(word, ngram_length) ==
    IF Len(word) >= ngram_length THEN LastK(word, ngram_length) ELSE word

(***************************************************************************)
(* Poems and radif stripping                                               *)
(*                                                                         *)
(* A poem is a sequence of stanzas, a stanza a sequence of lines, a line   *)
(* the sequence of its tokens.  A poem given as a flat list of lines is    *)
(* the poem of one stanza: both give every line the stanza id 0.           *)
(***************************************************************************)

RECURSIVE Flatten(_)
\* the lines of a poem in order
Flatten(poem) == IF poem = <<>> THEN <<>> ELSE Head(poem) \o Flatten(Tail(poem))

RECURSIVE StanzaIds(_, _)
\* the stanza id that the parsing loop gives each line, from stanza id k on
StanzaIds(poem, k) ==
    IF poem = <<>> THEN <<>>
    ELSE [i \in 1..Len(Head(poem)) |-> k] \o StanzaIds(Tail(poem), k + 1)

\* the number of lines of tokenized whose last token is w
FinCount(tokenized, w) ==
    Cardinality({i \in 1..Len(tokenized) :
                    tokenized[i] # <<>> /\ tokenized[i][Len(tokenized[i])] = w})

RECURSIVE FinWords(_, _)
\* the keys of fin_words_f in insertion order: the last tokens of the
\* non-empty lines in order of first appearance
FinWords(tokenized, seen) ==
    IF tokenized = <<>> THEN <<>>
    ELSE LET l == Head(tokenized)
             w == IF l = <<>> THEN NoWord ELSE l[Len(l)]
         IN  IF l = <<>> \/ w \in seen THEN FinWords(Tail(tokenized), seen)
             ELSE <<w>> \o FinWords(Tail(tokenized), seen \cup {w})

\* fin_words_f[w] >= self.radif, where fin_words_f[w] is count/len(tokenized)
ReachesRadif(count, total, radif) == count * radif[2] >= radif[1] * total

RECURSIVE RadifWords(_, _, _, _, _)
\* the loop "for w in fin_words_f" of one pass: ws are the words still to
\* visit, counts the frequencies computed at the start of the pass
RadifWords(tokenized, ws, counts, radif, st) ==
    IF ws = <<>> \/ st.error THEN [tokenized |-> tokenized, done |-> st.done, error |-> st.error]
    ELSE LET w == Head(ws)
         IN  IF ~ReachesRadif(counts[w], Len(tokenized), radif)
             THEN RadifWords(tokenized, Tail(ws), counts, radif, st)
             ELSE IF \E i \in 1..Len(tokenized) : tokenized[i] = <<>>
                  \* tokenized[i][-1] of an empty line: IndexError
                  THEN [tokenized |-> tokenized, done |-> FALSE, error |-> TRUE]
                  ELSE RadifWords(
                         [i \in 1..Len(tokenized) |->
                            IF tokenized[i][Len(tokenized[i])] = w
                            THEN SubSeq(tokenized[i], 1, Len(tokenized[i]) - 1)
                            ELSE tokenized[i]],
                         Tail(ws), counts, radif,
                         [done |-> FALSE, error |-> FALSE])

RECURSIVE RadifLoop(_, _)
\* the loop "while not radif_done"
RadifLoop(tokenized, radif) ==
    LET ws == FinWords(tokenized, {})
        counts == [w \in {ws[i] : i \in 1..Len(ws)} |-> FinCount(tokenized, w)]
        pass == RadifWords(tokenized, ws, counts, radif,
                           [done |-> TRUE, error |-> FALSE])
    IN  IF pass.error THEN [tokenized |-> tokenized, error |-> TRUE]
        ELSE IF pass.done THEN [tokenized |-> pass.tokenized, error |-> FALSE]
        ELSE RadifLoop(pass.tokenized, radif)

\* the value of self.radif after "if len(tokenized) <= 2 and self.radif <= 0.5"
RadifRaised(nlines, radif) ==
    IF nlines <= 2 /\ RatLeq(radif, <<1, 2>>) THEN <<51, 100>> ELSE radif

\* what _delete_radif returns and leaves for the result res of its loop
\* under the threshold r: the stripped lines, whether it raised
\* IndexError, and the value it leaves in self.radif
Stripped(res, r) == [lines |-> res.tokenized, error |-> res.error, radif |-> r]

\* the loop of _delete_radif under the threshold r
Strip(lines, r) == Stripped(RadifLoop(lines, r), r)

\* _delete_radif
DeleteRadif(lines, radif) == Strip(lines, RadifRaised(Len(lines), radif))

(***************************************************************************)
(* Line ingestor                                                           *)
(***************************************************************************)

\* the line record appended to self.data: (rhyme_word, poem_id, stanza_id,
\* rhyme_snds, reduplicant_length), with the number of components (twice
\* reduplicant_length) in count
Record(word, poem_id, stanza_id, sp) ==
    [word |-> word, poem |-> poem_id, stanza |-> stanza_id,
     snds |-> sp.components, count |-> sp.count]

\* _parse_line_fast / _parse_line_slow: the record of a line
LineRecord(tokens, poem_id, stanza_id, cfg) ==
    Record(GetRhymeWord(tokens), poem_id, stanza_id,
           SplitIpaComponents(Transcription(tokens), cfg.vowel_length,
                              cfg.stress, cfg.syll_max))

\* the entry of self.rhyme_vocab for a rhyme word: its components and its
\* final n-gram
VocabEntry(word, cfg) ==
    [snds |-> SplitIpaComponents(Transcription(<<word>>), cfg.vowel_length,
                                 cfg.stress, cfg.syll_max).components,
     ngram |-> FinalNgram(word, cfg.ngram_length)]

\* self.data.append(record) and "if rhyme_word not in self.rhyme_vocab",
\* on st = [data, rhyme_vocab]
AppendLine(st, rec, cfg) ==
    [data |-> Append(st.data, rec),
     rhyme_vocab |-> IF rec.word # NoWord /\ rec.word \notin DOMAIN st.rhyme_vocab
                     THEN Put(st.rhyme_vocab, rec.word, VocabEntry(rec.word, cfg))
                     ELSE st.rhyme_vocab]

RECURSIVE ParseLines(_, _, _, _, _)
\* the parsing loop of _add_to_model_fast / _add_to_model_slow over the
\* lines of one poem, on st = [data, rhyme_vocab]
ParseLines(lines, stanzas, poem_id, cfg, st) ==
    IF lines = <<>> THEN st
    ELSE After(AppendLine(st, LineRecord(Head(lines), poem_id, Head(stanzas), cfg),
                          cfg),
               LAMBDA s : ParseLines(Tail(lines), Tail(stanzas), poem_id, cfg, s))

(***************************************************************************)
(* Corpus frequency counter                                                *)
(***************************************************************************)

\* the keys 'w' and 'wp' of self.f and self.n
KW == StrKey(<<119>>)
KWP == StrKey(<<119, 112>>)

\* the skip condition of the window loop of _overall_frequencies for the
\* lines i < j (1-based in the model)
FreqSkip(dat, i, j, cfg) ==
    \/ j > Len(dat)
    \/ dat[i].poem # dat[j].poem
    \/ (cfg.stanza_limit /\ dat[i].stanza # dat[j].stanza)

RECURSIVE CountComponents(_, _, _)
\* for j,s in enumerate(components): self.f[j][s] += 1; self.n[j] += 1
CountComponents(st, components, j) ==
    IF j > Len(components) THEN st
    ELSE After([st EXCEPT !.f = Inc2(st.f, IntKey(j - 1), components[j], 1),
                          !.n = Inc(st.n, IntKey(j - 1), 1)],
               LAMBDA s : CountComponents(s, components, j + 1))

\* self.f['wp'][wp] += 1 and self.n['wp'] += 1 for the lines i and j
CountPair(st, wp, i, j) ==
    [st EXCEPT !.f = Inc2(st.f, KWP, wp, 1),
               !.n = Inc(st.n, KWP, 1),
               !.order = IF wp \in DOMAIN Get(st.f, KWP, EmptyDict) THEN st.order
                         ELSE Append(st.order, wp),
               !.pairs = st.pairs \cup {<<i, j>>}]

RECURSIVE CountWindow(_, _, _, _, _)
\* for j in range(i+1, i+self.window+1): the word-pair counts; st.pairs
\* collects the line pairs that were counted, st.order the keys of
\* self.f['wp'] in insertion order
CountWindow(st, dat, i, j, cfg) ==
    IF j > i + cfg.window THEN st
    ELSE IF FreqSkip(dat, i, j, cfg) \/ dat[j].word = NoWord
         THEN CountWindow(st, dat, i, j + 1, cfg)
         ELSE After(CountPair(st, SortedPair(dat[i].word, dat[j].word), i, j),
                    LAMBDA s : CountWindow(s, dat, i, j + 1, cfg))

\* self.f['w'][w] += 1, self.f['g'][ngram] += 1 and self.n['g'] += 1
CountWord(st, w, ngram) ==
    [st EXCEPT !.f = Inc2(Inc2(st.f, KW, w, 1), G, ngram, 1),
               !.n = Inc(st.n, G, 1)]

\* the body of the loop of _overall_frequencies for line i, whose rhyme
\* word has the vocabulary entry entry
CountLine(st, dat, i, entry, cfg) ==
    CountWindow(CountComponents(CountWord(st, dat[i].word, entry.ngram),
                                entry.snds, 1),
                dat, i, i + 1, cfg)

RECURSIVE CountLines(_, _, _, _, _)
\* the loop over the lines of _overall_frequencies
CountLines(st, dat, vocab, i, cfg) ==
    IF i > Len(dat) THEN st
    ELSE IF dat[i].word = NoWord THEN CountLines(st, dat, vocab, i + 1, cfg)
    ELSE After(CountLine(st, dat, i, vocab[dat[i].word], cfg),
               LAMBDA s : CountLines(s, dat, vocab, i + 1, cfg))

\* _overall_frequencies: self.f, self.n, the insertion order of the keys
\* of self.f['wp'], and the line pairs counted
OverallFrequencies(f0, n0, order0, dat, vocab, cfg) ==
    CountLines([f |-> f0, n |-> n0, order |-> order0, pairs |-> {}],
               dat, vocab, 1, cfg)

(***************************************************************************)
(* Training set and collocation detector                                   *)
(***************************************************************************)

RECURSIVE AddComponentPairs(_, _, _, _, _)
\* for i,c in enumerate(components1): self.train_set[i][pair] += occurrences
AddComponentPairs(ts, components1, components2, occurrences, i) ==
    IF i > Len(components1) THEN ts
    ELSE IF i > Len(components2)
         THEN AddComponentPairs(ts, components1, components2, occurrences, i + 1)
         ELSE After(Inc2(ts, IntKey(i - 1),
                         SortedPair(components1[i], components2[i]), occurrences),
                    LAMBDA t : AddComponentPairs(t, components1, components2,
                                                 occurrences, i + 1))

\* the key with which _add_to_train_set reads self.f['wp']
OccurrenceKey(w1, w2) == <<w1, w2>>

\* _add_to_train_set on st = [f, order, train_set, error]; vocab is
\* self.rhyme_vocab
AddToTrainSet(st, vocab, w1, w2) ==
    IF w1 \notin DOMAIN vocab \/ w2 \notin DOMAIN vocab
    THEN [st EXCEPT !.error = "KeyError"]
    ELSE LET key == OccurrenceKey(w1, w2)
             wp == Get(st.f, KWP, EmptyDict)
             occurrences == Get(wp, key, 0)
             pair == SortedPair(vocab[w1].ngram, vocab[w2].ngram)
         IN  [st EXCEPT
                !.f = Put(st.f, KWP, Touch(wp, key, 0)),
                !.order = IF key \in DOMAIN wp THEN st.order ELSE Append(st.order, key),
                !.train_set = AddComponentPairs(Inc2(st.train_set, G, pair, occurrences),
                                                vocab[w1].snds, vocab[w2].snds,
                                                occurrences, 1)]

\* t_score > self.t_score_min, where
\* t_score = (fxy - (fx * fy / n)) / (fxy ** 0.5), for fxy > 0 and n > 0
TScoreAbove(fxy, fx, fy, n, t_score_min) ==
    LET l == (fxy * n - fx * fy) * t_score_min[2]
        r == t_score_min[1] * n
    IN  IF r >= 0 THEN l > 0 /\ l * l > r * r * fxy
        ELSE l >= 0 \/ l * l < r * r * fxy

\* a test that forgets the T-score
IsFrequent(fxy, fx, fy, n, cfg) == fxy > cfg.frequency_min

\* the test of _collocations that adds a pair to the training set
IsCollocation(fxy, fx, fy, n, cfg) ==
    TScoreAbove(fxy, fx, fy, n, cfg.t_score_min) /\ fxy > cfg.frequency_min

RECURSIVE CollocationLoop(_, _, _, _, _)
\* the loop of _collocations over the keys of self.f['wp'] in insertion order
CollocationLoop(st, keys, vocab, n, cfg) ==
    IF keys = <<>> \/ st.error # "ok" THEN st
    ELSE LET w1 == Head(keys)[1]
             w2 == Head(keys)[2]
             fxy == st.f[KWP][Head(keys)]
             fx == Get(Get(st.f, KW, EmptyDict), w1, 0)
             fy == Get(Get(st.f, KW, EmptyDict), w2, 0)
         IN  IF ~cfg.same_words /\ w1 = w2
             THEN CollocationLoop(st, Tail(keys), vocab, n, cfg)
             ELSE IF fxy = 0
             \* fxy ** 0.5 is 0.0
             THEN [st EXCEPT !.error = "ZeroDivisionError"]
             ELSE IF IsCollocation(fxy, fx, fy, n, cfg)
             THEN CollocationLoop(
                    AddToTrainSet([st EXCEPT !.seeded = @ \cup {Head(keys)}],
                                  vocab, w1, w2),
                    Tail(keys), vocab, n, cfg)
             ELSE CollocationLoop(st, Tail(keys), vocab, n, cfg)

\* _collocations: self.f, self.train_set, the error raised, and the word
\* pairs that were added to the training set
Collocations(f0, order0, ts0, dat, vocab, cfg) ==
    CollocationLoop([f |-> f0, order |-> order0, train_set |-> ts0, error |-> "ok",
                     seeded |-> {}],
                    order0, vocab, Len(dat), cfg)

(***************************************************************************)
(* Probability estimator                                                   *)
(***************************************************************************)

\* sum(d.values())
SumValues(d) ==
    LET RECURSIVE S(_)
        S(ks) == IF ks = {} THEN 0
                 ELSE LET k == CHOOSE k \in ks : TRUE IN d[k] + S(ks \ {k})
    IN  S(DOMAIN d)

\* the keys of self.train_set in insertion order: 'g', then the positions
KeyspaceOrder(ts) ==
    LET RECURSIVE Up(_)
        Up(i) == IF \A k \in DOMAIN ts : IsIntKey(k) => k[2] < i THEN <<>>
                 ELSE (IF IntKey(i) \in DOMAIN ts THEN <<IntKey(i)>> ELSE <<>>)
                      \o Up(i + 1)
    IN  (IF G \in DOMAIN ts THEN <<G>> ELSE <<>>) \o Up(0)

\* an estimate that takes the pair's count for its relative frequency
ProbabilityOfCount(t, nt, fa, fb, n) == Frac(t * n * n, t * n * n + fa * fb)

\* ft_ab / (ft_ab + fca * fcb) with ft_ab = t/nt, fca = fa/n, fcb = fb/n
Probability(t, nt, fa, fb, n) == Frac(t * n * n, t * n * n + fa * fb * nt)

\* whether the estimate of one pair divides by zero
ProbabilityFails(t, nt, fa, fb, n) ==
    nt = 0 \/ n = 0 \/ (t = 0 /\ fa * fb = 0)

\* the probabilities of one keyspace x of the training set
KeyspaceProbs(ts, f, n, x) ==
    LET nt == SumValues(ts[x])
        fx == Get(f, x, EmptyDict)
        nx == Get(n, x, 0)
    IN  [error |-> \E k \in DOMAIN ts[x] :
                      ProbabilityFails(ts[x][k], nt, Get(fx, k[1], 0), Get(fx, k[2], 0), nx),
         probs |-> [k \in DOMAIN ts[x] |->
                      IF ProbabilityFails(ts[x][k], nt, Get(fx, k[1], 0), Get(fx, k[2], 0), nx)
                      THEN Zero
                      ELSE Probability(ts[x][k], nt, Get(fx, k[1], 0), Get(fx, k[2], 0), nx)]]

RECURSIVE EstimateLoop(_, _, _, _, _)
\* the estimator's loop after the keyspace Head(keys) gave r
EstimateStep(st, r, keys, ts, f, n) ==
    IF r.error THEN [st EXCEPT !.error = "ZeroDivisionError"]
    ELSE EstimateLoop([st EXCEPT !.probs = Put(st.probs, Head(keys), r.probs)],
                      Tail(keys), ts, f, n)

\* for x in self.train_set, on st = [probs, error]
EstimateLoop(st, keys, ts, f, n) ==
    IF keys = <<>> \/ st.error # "ok" THEN st
    ELSE EstimateStep(st, KeyspaceProbs(ts, f, n, Head(keys)), keys, ts, f, n)

\* self.probs != self.probs_previous
Improved(new, previous) == new # previous

\* what _probabilities leaves and returns when its loop ended in st
Estimated(st, probs0) ==
    [probs |-> st.probs, probs_previous |-> probs0, error |-> st.error,
     improved |-> Improved(st.probs, probs0)]

\* _probabilities: the new self.probs, self.probs_previous, the error
\* raised and the value returned
Probabilities(probs0, ts, f, n) ==
    Estimated(EstimateLoop([probs |-> EmptyDict, error |-> "ok"],
                           KeyspaceOrder(ts), ts, f, n),
              probs0)

(***************************************************************************)
(* Rhyme scorer                                                            *)
(***************************************************************************)

\* the score given to a pair of equal items that is not in the table
ScoreSame == <<99, 100>>
\* the score given to a pair of different items that is not in the table
ScoreDifferent == <<1, 10000>>

\* length1 % 2 != length2 % 2, the lengths being half the component counts
LengthsMismatch(count1, count2) == count1 % 4 # count2 % 4

\* length_coef of _rhyme_score and _ngram_score
LengthCoef(count1, count2, length_penalty) ==
    IF LengthsMismatch(count1, count2) THEN RatCompl(length_penalty) ELSE One

\* the probability p that _rhyme_score gives position i (0-based) of the
\* components a and b
ComponentProb(probs, i, a, b) ==
    LET tab == Get(probs, IntKey(i), EmptyDict)
    IN  IF SortedPair(a, b) \in DOMAIN tab THEN tab[SortedPair(a, b)]
        ELSE IF a = b THEN ScoreSame
        ELSE ScoreDifferent

\* score[0] *= p and score[1] *= (1-p): the ratio a : b in lowest terms,
\* g being the greatest common divisor of a and b
Ratio(a, b, g) ==
    [num |-> IF g = 0 THEN 0 ELSE a \div g, den |-> IF g = 0 THEN 0 ELSE b \div g]

\* the ratio score[0] : score[1] after the product with p
Product(num, den, p) ==
    Ratio(num * p[1], den * (p[2] - p[1]),
          Gcd(Abs(num * p[1]), Abs(den * (p[2] - p[1]))))

\* one pass of the loop of _rhyme_score, for the probability p of position i
ScoreStep(st, i, odds) ==
    [num |-> odds.num, den |-> odds.den,
     probs |-> Touch(st.probs, IntKey(i - 1), EmptyDict)]

RECURSIVE ScoreLoop(_, _, _, _, _)
\* the loop of _rhyme_score over the components, on st = [num, den, probs]:
\* score[0] : score[1] is kept as the ratio num : den in lowest terms, and
\* st.probs is self.probs with the keys that the reads self.probs[i] insert
ScoreLoop(st, c1, c2, i, m) ==
    IF i > m THEN st
    ELSE After(ScoreStep(st, i, Product(st.num, st.den,
                                        ComponentProb(st.probs, i - 1, c1[i], c2[i]))),
               LAMBDA s : ScoreLoop(s, c1, c2, i + 1, m))

\* the value _rhyme_score returns after its loop ended in st
Scored(st, length_coef) ==
    IF st.num + st.den > 0
    THEN [score |-> RatMul(length_coef, Frac(st.num, st.num + st.den)),
          probs |-> st.probs, coef |-> length_coef]
    ELSE [score |-> Zero, probs |-> st.probs, coef |-> length_coef]

\* _rhyme_score on the components c1 and c2 cut to the same length m
ScoreCut(probs, c1, c2, m, length_coef) ==
    IF c1 = c2 THEN [score |-> length_coef, probs |-> probs, coef |-> length_coef]
    ELSE Scored(ScoreLoop([num |-> 1, den |-> 1, probs |-> probs], c1, c2, 1, m),
                length_coef)

\* the shorter of two lengths
Min(a, b) == IF a < b THEN a ELSE b

\* _rhyme_score: the score, self.probs after the call and length_coef
RhymeScore(probs, w1, w2, count1, count2, length_penalty) ==
    ScoreCut(probs, FirstK(w1, Min(Len(w1), Len(w2))),
             FirstK(w2, Min(Len(w1), Len(w2))), Min(Len(w1), Len(w2)),
             LengthCoef(count1, count2, length_penalty))

\* _ngram_score: the score, self.probs after the call and length_coef
NgramScore(probs, vocab, w1, w2, count1, count2, length_penalty) ==
    LET pair == SortedPair(vocab[w1].ngram, vocab[w2].ngram)
        length_coef == LengthCoef(count1, count2, length_penalty)
        tab == Get(probs, G, EmptyDict)
    IN  [score |-> IF pair \in DOMAIN tab THEN RatMul(tab[pair], length_coef)
                   ELSE IF vocab[w1].ngram = vocab[w2].ngram
                   THEN RatMul(ScoreSame, length_coef)
                   ELSE ScoreDifferent,
         probs |-> Touch(probs, G, EmptyDict), coef |-> length_coef]

(***************************************************************************)
(* Windowed rhyme detector and chain linker                                *)
(*                                                                         *)
(* Lines are numbered from 1 in the model (from 0 in the code).            *)
(* rhymes_detected is a function from the lines to sets of lines; a line   *)
(* is a key of the dictionary when its set is not empty.                   *)
(***************************************************************************)

\* a skip condition that forgets the stanza test
DetectSkipAcrossStanzas(dat, i, j, cfg) ==
    \/ j > Len(dat)
    \/ dat[i].poem # dat[j].poem
    \/ (~cfg.same_words /\ dat[i].word = dat[j].word)

\* the skip condition of the window loops of _detect_rhymes
DetectSkip(dat, i, j, cfg) ==
    \/ j > Len(dat)
    \/ dat[i].poem # dat[j].poem
    \/ (cfg.stanza_limit /\ dat[i].stanza # dat[j].stanza)
    \/ (~cfg.same_words /\ dat[i].word = dat[j].word)

\* rhymes_detected[a].add(b)
AddRhyme(st, a, b) ==
    [st EXCEPT !.rhymes[a] = @ \cup {b},
               !.keys = IF st.rhymes[a] = {} THEN Append(@, a) ELSE @]

\* "Annotate distant rhymes": for k in rhymes_detected[i], k != j
Closure(st, i, j) ==
    LET ks == st.rhymes[i] \ {j}
    IN  [st EXCEPT !.rhymes = [x \in DOMAIN st.rhymes |->
                                 IF x \in ks THEN st.rhymes[x] \cup {j}
                                 ELSE IF x = j THEN st.rhymes[x] \cup ks
                                 ELSE st.rhymes[x]]]

\* a link that forgets rhymes_detected[j].add(i)
LinkOneWay(st, i, j) ==
    Closure([AddRhyme(st, i, j) EXCEPT !.direct = @ \cup {<<i, j>>}], i, j)

\* the body of "if ipa_score > self.prob_ipa_min"
LinkPhase1(st, i, j) ==
    Closure([AddRhyme(AddRhyme(st, i, j), j, i) EXCEPT !.direct = @ \cup {<<i, j>>}], i, j)

\* what the second window loop did when it linked i and j: rhymes_detected
\* before and after
Linking(st, i, j, new) ==
    [new EXCEPT !.ngrams = @ \cup {<<i, j>>},
                !.links = @ \cup {[pair |-> <<i, j>>, before |-> st.rhymes,
                                    after |-> new.rhymes]}]

\* the body of "if ngram_score > self.prob_ngram_min"
LinkPhase2(st, i, j) == Linking(st, i, j, AddRhyme(AddRhyme(st, i, j), j, i))

\* st after a score function returned r for the lines i and j: self.probs
\* with the keys its reads inserted, and the call in st.scores
ScoreReturned(st, r, by, i, j) ==
    [st EXCEPT !.probs = r.probs,
               !.scores = @ \cup {[by |-> by, pair |-> <<i, j>>, score |-> r.score,
                                    coef |-> r.coef]}]

\* line i after _rhyme_score gave r for the lines i and j
Scored1(st, r, i, j, cfg) ==
    IF RatLess(cfg.prob_ipa_min, r.score)
    THEN LinkPhase1(ScoreReturned(st, r, "_rhyme_score", i, j), i, j)
    ELSE ScoreReturned(st, r, "_rhyme_score", i, j)

\* line i after _ngram_score gave r for the lines i and j
Scored2(st, r, i, j, cfg) ==
    IF RatLess(cfg.prob_ngram_min, r.score)
    THEN LinkPhase2(ScoreReturned(st, r, "_ngram_score", i, j), i, j)
    ELSE ScoreReturned(st, r, "_ngram_score", i, j)

\* a window that is one line too long
PastWindowWide(i, j, cfg) == j > i + cfg.window + 1

\* j is past range(i+1, i+self.window+1)
PastWindow(i, j, cfg) == j > i + cfg.window

RECURSIVE Phase1(_, _, _, _, _)
\* the first window loop of line i, from j on
Phase1(st, dat, i, j, cfg) ==
    IF PastWindow(i, j, cfg) THEN st
    ELSE IF DetectSkip(dat, i, j, cfg) \/ dat[j].word = NoWord
         THEN Phase1(st, dat, i, j + 1, cfg)
         ELSE After(Scored1(st,
                            RhymeScore(st.probs, dat[i].snds, dat[j].snds,
                                       dat[i].count, dat[j].count,
                                       cfg.length_penalty),
                            i, j, cfg),
                    LAMBDA s : Phase1(s, dat, i, j + 1, cfg))

RECURSIVE Phase2(_, _, _, _, _, _)
\* the second window loop of line i, from j on
Phase2(st, dat, vocab, i, j, cfg) ==
    IF PastWindow(i, j, cfg) THEN st
    ELSE IF DetectSkip(dat, i, j, cfg) \/ st.rhymes[j] # {} \/ dat[j].word = NoWord
         THEN Phase2(st, dat, vocab, i, j + 1, cfg)
         ELSE After(Scored2(st,
                            NgramScore(st.probs, vocab, dat[i].word, dat[j].word,
                                       dat[i].count, dat[j].count,
                                       cfg.length_penalty),
                            i, j, cfg),
                    LAMBDA s : Phase2(s, dat, vocab, i, j + 1, cfg))

\* the second window loop of line i, entered with rhymes_detected as in st
SecondLoop(st, dat, vocab, i, cfg) ==
    Phase2([st EXCEPT !.fallback = @ \cup {<<i, st.rhymes[i]>>}],
           dat, vocab, i, i + 1, cfg)

\* a second window loop that is entered whatever rhymes line i has
FallbackAlways(st, dat, vocab, i, ngram, cfg) ==
    IF ~ngram THEN st ELSE SecondLoop(st, dat, vocab, i, cfg)

\* "if not ngram: continue", "if i in rhymes_detected: continue", else the
\* second window loop of line i
Fallback(st, dat, vocab, i, ngram, cfg) ==
    IF ~ngram \/ st.rhymes[i] # {} THEN st
    ELSE SecondLoop(st, dat, vocab, i, cfg)

RECURSIVE DetectLines(_, _, _, _, _, _)
\* the loop of _detect_rhymes over the lines, from line i on
DetectLines(st, dat, vocab, i, ngram, cfg) ==
    IF i > Len(dat) THEN st
    ELSE IF dat[i].word = NoWord THEN DetectLines(st, dat, vocab, i + 1, ngram, cfg)
    ELSE After(Fallback(Phase1(st, dat, i, i + 1, cfg), dat, vocab, i, ngram, cfg),
               LAMBDA s : DetectLines(s, dat, vocab, i + 1, ngram, cfg))

\* the detection part of _detect_rhymes: rhymes_detected, its keys in
\* insertion order, the pairs linked by the first window loop (direct) and
\* by the second (ngrams), the calls of the score functions (scores), and
\* self.probs afterwards
DetectRhymes(probs, dat, vocab, ngram, cfg) ==
    DetectLines([rhymes |-> [i \in 1..Len(dat) |-> {}], keys |-> <<>>,
                 direct |-> {}, ngrams |-> {}, fallback |-> {}, links |-> {},
                 scores |-> {}, probs |-> probs],
                dat, vocab, 1, ngram, cfg)

\* the elements of a set of lines in ascending order
RECURSIVE Ascending(_)
Ascending(S) ==
    IF S = {} THEN <<>>
    ELSE LET m == CHOOSE m \in S : \A x \in S : m <= x
         IN  <<m>> \o Ascending(S \ {m})

\* the line pairs that the update part of _detect_rhymes passes to
\* _add_to_train_set, in order
UpdatePairs(rhymes, keys) ==
    LET RECURSIVE Of(_)
        Of(ks) ==
            IF ks = <<>> THEN <<>>
            ELSE LET i == Head(ks)
                     js == Ascending({j \in rhymes[i] : ~(i > j)})
                 IN  [x \in 1..Len(js) |-> <<i, js[x]>>] \o Of(Tail(ks))
    IN  Of(keys)

RECURSIVE UpdateTrainSet(_, _, _, _)
\* "if update_train_set": _add_to_train_set for every pair of pairs
UpdateTrainSet(st, pairs, dat, vocab) ==
    IF pairs = <<>> \/ st.error # "ok" THEN st
    ELSE UpdateTrainSet(
            AddToTrainSet(st, vocab, dat[Head(pairs)[1]].word, dat[Head(pairs)[2]].word),
            Tail(pairs), dat, vocab)

(***************************************************************************)
(* Output formatter                                                        *)
(***************************************************************************)

\* a line number of the model as the code's 0-based index
Index(i) == i - 1

\* the absent chain index (None)
NoChain == 0

\* output format 1: for every line the sorted list of its rhymes
OutputLists(rhymes) ==
    [i \in DOMAIN rhymes |->
        LET a == Ascending(rhymes[i]) IN [x \in 1..Len(a) |-> Index(a[x])]]

\* set(tuple(x) for x in output): the sorted rhymes + [i] of every key i
ChainSet(rhymes) ==
    {LET a == Ascending(rhymes[i] \cup {i}) IN [x \in 1..Len(a) |-> Index(a[x])] :
        i \in {k \in DOMAIN rhymes : rhymes[k] # {}}}

\* sorted(output, key=lambda x: x[0]) is stable: chains with the same first
\* element keep the order in which the set yields them, which the language
\* leaves open.  ChainLists is the set of lists that can come out.
ChainLists(rhymes) ==
    LET cs == ChainSet(rhymes)
        n == Cardinality(cs)
    IN  {o \in [1..n -> cs] :
            /\ \A x, y \in 1..n : x # y => o[x] # o[y]
            /\ \A x \in 1..n : x < n => o[x][1] <= o[x + 1][1]}

\* next((idx+1 for idx,elem in enumerate(output) if i in elem), None)
ChainIndex(output, i) ==
    LET hits == {idx \in 1..Len(output) :
                    \E x \in 1..Len(output[idx]) : output[idx][x] = Index(i)}
    IN  IF hits = {} THEN NoChain ELSE CHOOSE idx \in hits : \A h \in hits : idx <= h

\* output format 3 for the chain list output and nlines lines
OutputAbba(output, nlines) == [i \in 1..nlines |-> ChainIndex(output, i)]

\* output(): the values it can return for self.output_format
Outputs(rhymes, output_format) ==
    IF output_format = 1 THEN {OutputLists(rhymes)}
    ELSE IF output_format = 2 THEN ChainLists(rhymes)
    ELSE IF output_format = 3
    THEN {OutputAbba(o, Len(rhymes)) : o \in ChainLists(rhymes)}
    ELSE {<<>>}

(***************************************************************************)
(* The engine                                                              *)
(***************************************************************************)

VARIABLES
    attrs,          \* the groups of attributes that exist on the object:
                    \* "model" (the settings and self.probs), "data"
                    \* (self.data, self.rhyme_vocab, self.poem_id,
                    \* self.verbose), "freq" (self.f, self.n,
                    \* self.train_set), "lineseparator"
    cfg,            \* the settings
    data,           \* self.data
    rhyme_vocab,    \* self.rhyme_vocab
    poem_id,        \* self.poem_id
    f,              \* self.f
    n,              \* self.n
    wp_order,       \* the keys of self.f['wp'] in insertion order
    train_set,      \* self.train_set
    probs,          \* self.probs
    probs_previous, \* self.probs_previous
    file,           \* the model file written by save_model; file.saved
                    \* remembers the settings and self.probs that were saved
    pc,             \* the position of train_model: "idle" outside it
    iteration,      \* the loop variable of train_model
    detected,       \* what the last detection pass found
    result,         \* the outcome of the last operation
    hist            \* history: of the current train_model call (the line
                    \* pairs counted, the word pairs seeded, the runs
                    \* of the estimator and of the detection pass, the
                    \* announcements), the number of train_model calls
                    \* since new_model, the model as load_model left
                    \* it, whether load_model or train_model has
                    \* completed on the object, the numbers of
                    \* new_model, save_model and tag calls, and
                    \* self.probs as the last train_model call left it
                    \* (trained) and as the call before it had (before)

vars == <<attrs, cfg, data, rhyme_vocab, poem_id, f, n, wp_order, train_set,
          probs, probs_previous, file, pc, iteration, detected, result, hist>>

\* the defaults of new_model's parameters
Defaults ==
    [lang |-> "en", transcribed |-> FALSE, window |-> 5, syll_max |-> 2,
     stress |-> TRUE, vowel_length |-> TRUE, ngram |-> 1, ngram_length |-> 3,
     same_words |-> TRUE, t_score_min |-> <<1539, 500>>, frequency_min |-> 3,
     stanza_limit |-> FALSE, prob_ipa_min |-> <<19, 20>>,
     prob_ngram_min |-> <<19, 20>>, max_iter |-> 20, verbose |-> TRUE,
     length_penalty |-> Zero, fast_ipa |-> TRUE, radif |-> <<2, 1>>]

\* the settings that save_model writes and load_model reads
PersistedSettings ==
    {"lang", "window", "syll_max", "vowel_length", "stress", "same_words",
     "ngram", "ngram_length", "t_score_min", "frequency_min", "stanza_limit",
     "prob_ipa_min", "prob_ngram_min", "max_iter", "length_penalty",
     "fast_ipa", "radif"}

\* the settings that tag takes from its keyword arguments
Overridable ==
    {"lang", "window", "same_words", "ngram", "t_score_min", "frequency_min",
     "stanza_limit", "prob_ipa_min", "prob_ngram_min", "length_penalty",
     "fast_ipa", "radif"}

NoModel == [valid |-> FALSE, cfg |-> Defaults, probs |-> EmptyDict]
NoFile == [exists |-> FALSE, settings |-> EmptyDict, probs |-> EmptyDict,
           saved |-> NoModel]
NoDetection ==
    [rhymes |-> <<>>, keys |-> <<>>, direct |-> {}, ngrams |-> {}, fallback |-> {},
     links |-> {}, scores |-> {}, update |-> <<>>]
NoArgs == [poem |-> <<>>, output_format |-> 0, overrides |-> EmptyDict]
NoTrained == [valid |-> FALSE, probs |-> EmptyDict]
NoHist == [counted |-> {}, counted_words |-> {}, seeded |-> {},
           estimator_runs |-> 0, detection_runs |-> 0, announced |-> <<>>,
           improved |-> FALSE, model |-> NoModel, calls |-> 0,
           prepared |-> FALSE, models |-> 0, saves |-> 0, tags |-> 0,
           trained |-> NoTrained, before |-> NoTrained]

\* self.probs as the train_model call that has just returned left it
Trained(status, p) ==
    IF status = "ok" THEN [valid |-> TRUE, probs |-> p] ELSE NoTrained

Outcome(op, status) == [op |-> op, status |-> status, value |-> <<>>, args |-> NoArgs]

\* the object after __init__
Init ==
    /\ attrs = {}
    /\ cfg = Defaults
    /\ data = <<>>
    /\ rhyme_vocab = EmptyDict
    /\ poem_id = 0
    /\ f = EmptyDict
    /\ n = EmptyDict
    /\ wp_order = <<>>
    /\ train_set = EmptyDict
    /\ probs = EmptyDict
    /\ probs_previous = EmptyDict
    /\ file = NoFile
    /\ pc = "idle"
    /\ iteration = 0
    /\ detected = NoDetection
    /\ result = Outcome("init", "ok")
    /\ hist = NoHist

\* checks that take an empty lang for an error whatever transcribed is
ConfigErrorAnyLang(c) ==
    \/ c.lang = ""
    \/ RatLess(c.length_penalty, Zero)
    \/ RatLess(One, c.length_penalty)

\* the checks of new_model that raise
ConfigError(c) ==
    \/ (c.lang = "" /\ ~c.transcribed)
    \/ RatLess(c.length_penalty, Zero)
    \/ RatLess(One, c.length_penalty)

\* new_model(**c)
NewModel(c) ==
    /\ pc = "idle"
    /\ cfg' = c
    /\ poem_id' = 0
    /\ data' = <<>>
    /\ rhyme_vocab' = EmptyDict
    /\ f' = EmptyDict
    /\ n' = EmptyDict
    /\ wp_order' = <<>>
    /\ train_set' = EmptyDict
    /\ probs' = EmptyDict
    /\ attrs' = attrs \cup {"model", "data", "freq"}
                 \cup (IF ~ConfigError(c) /\ ~c.transcribed
                       THEN {"lineseparator"} ELSE {})
    /\ result' = Outcome("new_model", IF ConfigError(c) THEN "ConfigError" ELSE "ok")
    /\ hist' = [NoHist EXCEPT !.prepared = hist.prepared,
                               !.models = hist.models + 1,
                               !.saves = hist.saves,
                               !.tags = hist.tags]
    /\ detected' = NoDetection
    /\ UNCHANGED <<probs_previous, file, pc, iteration>>

\* whether add_to_model strips the radif
StripsRadif(c) == RatLeq(c.radif, One)

\* the lines that add_to_model parses, with the value left in self.radif
RadifStep(c, lines) ==
    IF StripsRadif(c) THEN DeleteRadif(lines, c.radif)
    ELSE [lines |-> lines, error |-> FALSE, radif |-> c.radif]

\* what add_to_model leaves when the lines were parsed into parsed
Ingested(radif, parsed) ==
    [radif |-> radif, data |-> parsed.data, rhyme_vocab |-> parsed.rhyme_vocab,
     error |-> "ok"]

\* add_to_model after the radif step r
Ingest(r, stanzas, c, dat, vocab, pid) ==
    IF r.error
    THEN [radif |-> r.radif, data |-> dat, rhyme_vocab |-> vocab,
          error |-> "IndexError"]
    ELSE IF c.transcribed /\ r.lines # <<>>
    \* line['text'] of a line that is a string
    THEN [radif |-> r.radif, data |-> dat, rhyme_vocab |-> vocab,
          error |-> "TypeError"]
    ELSE Ingested(r.radif,
                  ParseLines(r.lines, stanzas, pid, c,
                             [data |-> dat, rhyme_vocab |-> vocab]))

\* add_to_model(poem) on the settings c, the data dat and the vocabulary
\* vocab: what it leaves in self.radif, self.data, self.rhyme_vocab and
\* whether it raised
AddPoem(c, dat, vocab, pid, poem) ==
    Ingest(RadifStep(c, Flatten(poem)), StanzaIds(poem, 0), c, dat, vocab, pid)

\* the attributes that the parsing part of add_to_model reads
ParseNeeds(c) ==
    {"data"} \cup (IF c.fast_ipa /\ ~c.transcribed THEN {"lineseparator"} ELSE {})

\* add_to_model on an object with settings, r being what it leaves
Fed(r) ==
    /\ cfg' = [cfg EXCEPT !.radif = r.radif]
    /\ IF r.error # "ok"
       THEN /\ result' = Outcome("add_to_model", r.error)
            /\ UNCHANGED <<data, rhyme_vocab, poem_id>>
       ELSE IF ~(ParseNeeds(cfg) \subseteq attrs)
       THEN /\ result' = Outcome("add_to_model", "AttributeError")
            /\ UNCHANGED <<data, rhyme_vocab, poem_id>>
       ELSE /\ result' = Outcome("add_to_model", "ok")
            /\ data' = r.data
            /\ rhyme_vocab' = r.rhyme_vocab
            /\ poem_id' = poem_id + 1

\* add_to_model(poem)
AddToModel(poem) ==
    /\ pc = "idle"
    /\ IF "model" \notin attrs
       THEN /\ result' = Outcome("add_to_model", "AttributeError")
            /\ UNCHANGED <<cfg, data, rhyme_vocab, poem_id>>
       ELSE Fed(AddPoem(cfg, data, rhyme_vocab, poem_id, poem))
    /\ detected' = NoDetection
    /\ hist' = [hist EXCEPT !.model = NoModel, !.trained = NoTrained]
    /\ UNCHANGED <<attrs, f, n, wp_order, train_set, probs, probs_previous, file,
                   pc, iteration>>

(***************************************************************************)
(* train_model                                                             *)
(***************************************************************************)

\* the word pairs of a set of line pairs
WordPairs(dat, pairs) == {SortedPair(dat[p[1]].word, dat[p[2]].word) : p \in pairs}

\* train_model up to the loop, after _overall_frequencies gave sweep and
\* _collocations gave col
Seeded(sweep, col) ==
    /\ f' = col.f
    /\ n' = sweep.n
    /\ wp_order' = col.order
    /\ train_set' = col.train_set
    /\ pc' = IF col.error = "ok" /\ cfg.max_iter > 0 THEN "estimate" ELSE "idle"
    /\ result' = Outcome("train_model",
                         IF col.error # "ok" THEN col.error
                         ELSE IF cfg.max_iter > 0 THEN "running" ELSE "ok")
    /\ hist' = [hist EXCEPT
                  !.calls = @ + 1,
                  !.prepared = @ \/ result'.status = "ok",
                  !.counted = sweep.pairs,
                  !.seeded = col.seeded,
                  !.counted_words = @ \cup WordPairs(data, sweep.pairs),
                  !.estimator_runs = 0,
                  !.detection_runs = 0,
                  !.announced = <<>>,
                  !.improved = FALSE,
                  !.model = NoModel,
                  !.before = hist.trained,
                  !.trained = Trained(result'.status, probs)]

\* train_model up to the loop, after _overall_frequencies gave sweep
Swept(sweep) ==
    Seeded(sweep,
           Collocations(sweep.f, sweep.order, train_set, data, rhyme_vocab, cfg))

\* a check that only looks for the attribute
NoCorpusUnchecked == "data" \notin attrs

\* "Check if model exists and if contains some data"
NoCorpus == "data" \notin attrs \/ Len(data) = 0

\* train_model up to the loop: the checks, _overall_frequencies and
\* _collocations
TrainBegin ==
    /\ pc = "idle"
    /\ IF NoCorpus
       THEN /\ result' = Outcome("train_model", "EmptyCorpus")
            /\ UNCHANGED <<f, n, wp_order, train_set, pc, hist>>
       ELSE IF "freq" \notin attrs
       THEN /\ result' = Outcome("train_model", "AttributeError")
            /\ UNCHANGED <<f, n, wp_order, train_set, pc, hist>>
       ELSE Swept(OverallFrequencies(f, n, wp_order, data, rhyme_vocab, cfg))
    /\ iteration' = 0
    /\ detected' = NoDetection
    /\ UNCHANGED <<attrs, cfg, data, rhyme_vocab, poem_id, probs, probs_previous, file>>

\* the use of n-grams in the detection pass of iteration it (0-based)
UseNgrams(c, it) == c.ngram # 0 /\ it + 1 >= c.ngram

\* a last-iteration test that is late by one iteration
LastIterationLate(c, it) == it = c.max_iter

\* whether the loop of train_model stops after the estimator ran in
\* iteration it and reported improved
LastIteration(c, it) == it = c.max_iter - 1

\* what train_model prints after the estimator returned r in iteration it
Announcement(r, c, it) ==
    IF r.error # "ok" THEN <<>>
    ELSE IF ~r.improved THEN <<"equilibrium">>
    ELSE IF LastIteration(c, it) THEN <<"no equilibrium">>
    ELSE <<>>

\* the two tests of the loop of train_model after the estimator returned
\* r, said being what is printed
Estimate(r, said) ==
    /\ probs' = r.probs
    /\ probs_previous' = r.probs_previous
    /\ pc' = IF r.error # "ok" \/ said # <<>> THEN "idle" ELSE "detect"
    /\ result' = Outcome("train_model",
                         IF r.error # "ok" THEN r.error
                         ELSE IF said # <<>> THEN "ok" ELSE "running")
    /\ hist' = [hist EXCEPT !.estimator_runs = @ + 1,
                            !.prepared = @ \/ result'.status = "ok",
                            !.announced = @ \o said,
                            !.improved = r.improved,
                            !.trained = Trained(result'.status, r.probs)]

\* the loop of train_model after the estimator returned r
Estimator(r) == Estimate(r, Announcement(r, cfg, iteration))

\* one run of _probabilities in the loop of train_model and the two tests
\* that follow it
TrainEstimate ==
    /\ pc = "estimate"
    /\ Estimator(Probabilities(probs, train_set, f, n))
    /\ detected' = NoDetection
    /\ UNCHANGED <<attrs, cfg, data, rhyme_vocab, poem_id, f, n, wp_order,
                   train_set, file, iteration>>

\* what _detect_rhymes(update_train_set=True) leaves: d is what the
\* detection found, up the pairs passed to _add_to_train_set, st the
\* tables afterwards
Updated(d, up, st) ==
    [detected |-> [rhymes |-> d.rhymes, keys |-> d.keys, direct |-> d.direct,
                   ngrams |-> d.ngrams, fallback |-> d.fallback, links |-> d.links,
                   scores |-> d.scores, update |-> up],
     probs |-> d.probs, f |-> st.f, order |-> st.order,
     train_set |-> st.train_set, error |-> st.error]

\* "if update_train_set" for the pairs up
Update(d, up) ==
    Updated(d, up,
            UpdateTrainSet([f |-> f, order |-> wp_order, train_set |-> train_set,
                            error |-> "ok"], up, data, rhyme_vocab))

\* "if update_train_set" after the detection found d
Detected(d) == Update(d, UpdatePairs(d.rhymes, d.keys))

\* _detect_rhymes(update_train_set=True) on the engine's state
DetectAndUpdate(ngram) == Detected(DetectRhymes(probs, data, rhyme_vocab, ngram, cfg))

\* the end of an iteration of train_model after the detection pass gave r
Rebuilt(r) ==
    /\ detected' = r.detected
    /\ probs' = r.probs
    /\ f' = r.f
    /\ wp_order' = r.order
    /\ train_set' = r.train_set
    /\ pc' = IF r.error = "ok" /\ iteration + 1 < cfg.max_iter THEN "estimate"
             ELSE "idle"
    /\ result' = Outcome("train_model",
                         IF r.error # "ok" THEN r.error
                         ELSE IF iteration + 1 < cfg.max_iter THEN "running"
                         ELSE "ok")

\* "Rebuild the training set": the detection pass that ends an iteration
TrainDetect ==
    /\ pc = "detect"
    /\ Rebuilt(DetectAndUpdate(UseNgrams(cfg, iteration)))
    /\ iteration' = iteration + 1
    /\ hist' = [hist EXCEPT !.detection_runs = @ + 1,
                            !.prepared = @ \/ result'.status = "ok",
                            !.trained = Trained(result'.status, probs')]
    /\ UNCHANGED <<attrs, cfg, data, rhyme_vocab, poem_id, n, probs_previous, file>>

(***************************************************************************)
(* save_model and load_model                                               *)
(***************************************************************************)

RECURSIVE Decimal(_)
\* str(i) for an int i >= 0
Decimal(i) == IF i < 10 THEN <<48 + i>> ELSE Decimal(i \div 10) \o <<48 + (i % 10)>>

\* the JSON object key that ujson.dumps writes for a key of self.probs
KeyToJson(k) == IF IsIntKey(k) THEN Decimal(k[2]) ELSE Tail(k)

\* str((a, b)) for strings a and b without quotes or backslashes: ('a', 'b')
PairToJson(pair) ==
    <<40, 39>> \o pair[1] \o <<39, 44, 32, 39>> \o pair[2] \o <<39, 41>>

\* make_tuple(y) for such a string: the text between the first and the
\* second quote, and between the third and the fourth
JsonToPair(y) ==
    LET quotes == {i \in 1..Len(y) : y[i] = 39}
        q1 == CHOOSE i \in quotes : \A j \in quotes : i <= j
        q2 == CHOOSE i \in quotes \ {q1} : \A j \in quotes \ {q1} : i <= j
        q4 == CHOOSE i \in quotes : \A j \in quotes : j <= i
        q3 == CHOOSE i \in quotes \ {q4} : \A j \in quotes \ {q4} : j <= i
    IN  <<SubSeq(y, q1 + 1, q2 - 1), SubSeq(y, q3 + 1, q4 - 1)>>

\* the setting that save_model writes under the name k
SavedSetting(c, k) == IF k = "ngram" THEN c.ngram_length ELSE c[k]

\* the 'probs' object of the file
SavedProbs(p) ==
    [x \in {KeyToJson(k) : k \in DOMAIN p} |->
        LET k == CHOOSE k \in DOMAIN p : KeyToJson(k) = x
        IN  [y \in {PairToJson(pair) : pair \in DOMAIN p[k]} |->
                p[k][CHOOSE pair \in DOMAIN p[k] : PairToJson(pair) = y]]]

\* save_model(file)
SaveModel ==
    /\ pc = "idle"
    /\ IF "model" \notin attrs
       THEN /\ result' = Outcome("save_model", "AttributeError")
            /\ UNCHANGED file
       ELSE /\ result' = Outcome("save_model", "ok")
            /\ file' = [exists |-> TRUE,
                        settings |-> [k \in PersistedSettings |-> SavedSetting(cfg, k)],
                        probs |-> SavedProbs(probs),
                        saved |-> [valid |-> TRUE, cfg |-> cfg, probs |-> probs]]
    /\ detected' = NoDetection
    /\ hist' = [hist EXCEPT !.saves = @ + 1]
    /\ UNCHANGED <<attrs, cfg, data, rhyme_vocab, poem_id, f, n, wp_order,
                   train_set, probs, probs_previous, pc, iteration>>

\* re.search('^[0-9]$', x)
IsPositionKey(x) == Len(x) = 1 /\ x[1] \in 48..57

\* the key of self.probs under which load_model stores the JSON key x
JsonToKey(x) == IF IsPositionKey(x) THEN IntKey(x[1] - 48) ELSE StrKey(x)

\* self.probs as load_model builds it from the 'probs' object of the file
LoadedProbs(p) ==
    [k \in {JsonToKey(x) : x \in {x \in DOMAIN p : DOMAIN p[x] # {}}} |->
        LET x == CHOOSE x \in DOMAIN p : JsonToKey(x) = k
        IN  [pair \in {JsonToPair(y) : y \in DOMAIN p[x]} |->
                p[x][CHOOSE y \in DOMAIN p[x] : JsonToPair(y) = pair]]]

\* the settings after load_model
LoadedSettings(c, settings) ==
    [k \in DOMAIN c |-> IF k \in PersistedSettings THEN settings[k] ELSE c[k]]

\* load_model(file), for the file that save_model wrote
LoadModel ==
    /\ pc = "idle"
    /\ file.exists
    /\ cfg' = LoadedSettings(cfg, file.settings)
    /\ probs' = LoadedProbs(file.probs)
    /\ attrs' = attrs \cup {"model"}
    /\ result' = Outcome("load_model", "ok")
    /\ hist' = [hist EXCEPT !.model = [valid |-> TRUE, cfg |-> cfg', probs |-> probs'],
                            !.prepared = TRUE,
                            !.trained = NoTrained]
    /\ detected' = NoDetection
    /\ UNCHANGED <<data, rhyme_vocab, poem_id, f, n, wp_order, train_set,
                   probs_previous, file, pc, iteration>>

(***************************************************************************)
(* tag                                                                     *)
(***************************************************************************)

\* the settings after tag has taken its keyword arguments
ApplyOverrides(c, overrides) ==
    [k \in DOMAIN c |->
        IF k \in Overridable /\ k \in DOMAIN overrides THEN overrides[k]
        ELSE IF k \in {"transcribed", "verbose"} THEN FALSE
        ELSE c[k]]

\* what tag leaves and can return when add_to_model left a and
\* _detect_rhymes found d under the settings c
Tagged(c, a, d, output_format) ==
    [cfg |-> c, probs |-> d.probs, data |-> a.data,
     rhyme_vocab |-> a.rhyme_vocab, poem_id |-> 1,
     detected |-> [rhymes |-> d.rhymes, keys |-> d.keys, direct |-> d.direct,
                   ngrams |-> d.ngrams, fallback |-> d.fallback, links |-> d.links,
                   scores |-> d.scores, update |-> <<>>],
     values |-> Outputs(d.rhymes, output_format), error |-> "ok"]

\* tag from self._detect_rhymes on; add_to_model left a and c are the
\* settings with the radif threshold that it left
TagDetect(c, p, a, output_format) ==
    IF a.error # "ok"
    THEN [cfg |-> c, probs |-> p, data |-> <<>>, rhyme_vocab |-> EmptyDict,
          poem_id |-> 0, detected |-> NoDetection, values |-> {<<>>},
          error |-> a.error]
    ELSE Tagged(c, a, DetectRhymes(p, a.data, a.rhyme_vocab, c.ngram # 0, c),
                output_format)

\* tag from self.add_to_model(poem) on, which left a under the settings c
Added(c, p, a, output_format) ==
    TagDetect([c EXCEPT !.radif = a.radif], p, a, output_format)

\* tag after its keyword arguments were taken into the settings c
TagPoem(c, p, poem, output_format) ==
    Added(c, p, AddPoem(c, <<>>, EmptyDict, 0, poem), output_format)

\* tag(poem, output_format=output_format, **overrides) on an object with the
\* settings c and the probabilities p: the state it leaves, the values it
\* can return and the error it raises
TagCall(c, p, poem, output_format, overrides) ==
    TagPoem(ApplyOverrides(c, overrides), p, poem, output_format)

\* "Check if model is loaded"
ModelLoaded == "model" \in attrs

\* tag on a loaded model: t is what it leaves and can return
Tagging(t, args) ==
    /\ cfg' = t.cfg
    /\ probs' = t.probs
    /\ data' = t.data
    /\ rhyme_vocab' = t.rhyme_vocab
    /\ poem_id' = t.poem_id
    /\ detected' = t.detected
    /\ attrs' = attrs \cup {"data", "lineseparator"}
    /\ \E v \in t.values :
          result' = [op |-> "tag", status |-> t.error, value |-> v, args |-> args]

\* tag(poem, output_format=output_format, **overrides)
Tag(poem, output_format, overrides) ==
    /\ pc = "idle"
    /\ IF ~ModelLoaded
       THEN /\ result' = [op |-> "tag", status |-> "NoModelLoaded", value |-> <<>>,
                          args |-> [poem |-> poem, output_format |-> output_format,
                                    overrides |-> overrides]]
            /\ detected' = NoDetection
            /\ UNCHANGED <<attrs, cfg, data, rhyme_vocab, poem_id, probs>>
       ELSE Tagging(TagCall(cfg, probs, poem, output_format, overrides),
                    [poem |-> poem, output_format |-> output_format,
                     overrides |-> overrides])
    /\ hist' = [hist EXCEPT !.tags = @ + 1, !.trained = NoTrained]
    /\ UNCHANGED <<f, n, wp_order, train_set, probs_previous, file, pc, iteration>>

(***************************************************************************)
(* The engine's inputs and its next-state relation                         *)
(***************************************************************************)

\* bounds: the lines of the corpus, max_iter, and the numbers of
\* new_model, train_model, save_model and tag calls
MaxLines == 4
MaxIter == 2
MaxModels == 1
MaxTrainCalls == 2
MaxSaves == 1
MaxTags == 2

\* the default settings with max_iter within the bound
Strict == [Defaults EXCEPT !.max_iter = MaxIter]

\* settings that let a small corpus seed the training set
Loose == [Strict EXCEPT !.t_score_min = <<-2, 1>>, !.frequency_min = 0]

\* the settings passed to new_model
Configs ==
    {Strict,
     Loose,
     [Loose EXCEPT !.same_words = FALSE, !.stanza_limit = TRUE, !.ngram_length = 2,
                   !.window = 2],
     [Loose EXCEPT !.syll_max = 6, !.stress = FALSE, !.max_iter = 1],
     [Loose EXCEPT !.radif = <<1, 2>>, !.max_iter = 0],
     [Strict EXCEPT !.length_penalty = <<2, 1>>],
     [Strict EXCEPT !.length_penalty = <<-1, 2>>],
     [Strict EXCEPT !.length_penalty = One, !.window = 1, !.syll_max = 0],
     [Strict EXCEPT !.lang = ""],
     [Strict EXCEPT !.lang = "", !.transcribed = TRUE],
     [Loose EXCEPT !.stress = FALSE, !.ngram_length = 2, !.frequency_min = 1]}

\* poems: lists of stanzas of lines of tokens
CatHatCat == << <<<<Cat>>, <<Hat>>, <<Cat>>>> >>
CatCatHat == << <<<<Cat>>, <<Cat>>, <<Hat>>>> >>
TwoStanzas == << <<<<Cat>>, <<Hat>>>>, <<<<Cat>>, <<Hat>>>> >>
CatItCutIt == << <<<<Cat, It>>, <<Cut, It>>>> >>
HippoHippo == << <<<<Hippo>>, <<Hippo>>>> >>
EmptyLine == << <<<<It>>, <<>>>> >>
ItItHatCat == << <<<<It>>, <<It>>, <<Hat>>, <<Cat>>>> >>
ItItIt == << <<<<It>>, <<It, It>>, <<It>>>> >>

\* the poems passed to add_to_model
Poems ==
    {CatHatCat, CatCatHat, TwoStanzas, CatItCutIt, HippoHippo, EmptyLine, ItItHatCat}

\* the arguments of the tag calls: the poem, output_format and the keyword
\* arguments
TagCalls ==
    {<<ItItIt, 2, EmptyDict>>,
     <<CatCatHat, 3, [same_words |-> FALSE, ngram |-> 0]>>,
     <<CatCatHat, 1, EmptyDict>>,
     <<ItItIt, 1, [length_penalty |-> <<2, 1>>]>>}

Next ==
    \/ \E c \in Configs : hist.models < MaxModels /\ NewModel(c)
    \/ \E poem \in Poems :
          /\ Len(data) + Len(Flatten(poem)) <= MaxLines
          /\ AddToModel(poem)
    \/ (hist.calls < MaxTrainCalls /\ TrainBegin)
    \/ TrainEstimate
    \/ TrainDetect
    \/ (hist.saves < MaxSaves /\ SaveModel)
    \/ LoadModel
    \/ \E t \in TagCalls : hist.tags < MaxTags /\ Tag(t[1], t[2], t[3])

Spec == Init /\ [][Next]_vars

(***************************************************************************)
(* new_model                                                               *)
(***************************************************************************)

\* the last operation was new_model
Configured == result.op = "new_model"

\* C12: new_model raises its configuration error exactly when length_penalty
\* is below 0 or above 1, or lang is empty while transcribed is false
C12_ConfigErrorIff ==
    Configured =>
        /\ result.status \in {"ok", "ConfigError"}
        /\ result.status = "ConfigError" <=>
              \/ RatLess(cfg.length_penalty, Zero)
              \/ RatLess(One, cfg.length_penalty)
              \/ (cfg.lang = "" /\ ~cfg.transcribed)

\* new_model has raised for an empty lang
C12_Witness ==
    Configured /\ result.status = "ConfigError" /\ cfg.lang = "" /\ ~cfg.transcribed

\* new_model has completed with an empty lang and transcribed set, and with
\* length_penalty 1
C12_Accepted ==
    /\ Configured /\ result.status = "ok"
    /\ (cfg.lang = "" /\ cfg.transcribed) \/ cfg.length_penalty = One

(***************************************************************************)
(* add_to_model                                                            *)
(***************************************************************************)

\* C14: add_to_model, and tag without a radif argument, leave the radif
\* threshold of the settings as it was before the call
C14_RadifRestored ==
    [][(\/ result'.op = "add_to_model"
        \/ (result'.op = "tag" /\ "radif" \notin DOMAIN result'.args.overrides)) =>
          cfg'.radif = cfg.radif]_vars

\* the lines of the poem that the last add_to_model call appended
LastPoem == {i \in DOMAIN data : data[i].poem = poem_id - 1}

\* the last operation was add_to_model under a threshold radif <= 1
StrippedPoem == result.op = "add_to_model" /\ "model" \in attrs /\ RatLeq(cfg.radif, One)

\* C15: radif stripping ends for every poem and every threshold radif <= 1,
\* and when it has ended no token is the last token of a fraction >= radif
\* of the lines of the poem
C15_RadifConverges ==
    StrippedPoem =>
        /\ result.status # "IndexError"
        /\ result.status = "ok" =>
              \A i \in LastPoem :
                  data[i].word # NoWord =>
                      Cardinality({j \in LastPoem : data[j].word = data[i].word})
                              * cfg.radif[2]
                          < cfg.radif[1] * Cardinality(LastPoem)

\* C29: under a threshold radif <= 1, add_to_model and tag never fail in
\* radif stripping, whatever the poem
C29_RadifNeverRaises ==
    (result.op \in {"add_to_model", "tag"} /\ RatLeq(cfg.radif, One)) =>
        result.status # "IndexError"

(***************************************************************************)
(* Detection passes                                                        *)
(***************************************************************************)

\* the lines of the corpus that the last detection pass went over
Lines == DOMAIN detected.rhymes

\* the lines i and j are linked in rhymes_detected
Linked(i, j) == j \in detected.rhymes[i]

\* a link that no score made: it came from "Annotate distant rhymes"
ClosureLink(i, j) ==
    /\ Linked(i, j)
    /\ {<<i, j>>, <<j, i>>} \cap (detected.direct \cup detected.ngrams) = {}

\* C1: when same_words is false, at the end of a detection pass no two
\* lines with the same rhyme word are linked
C1_SameWordsNotLinked ==
    ~cfg.same_words =>
        \A i, j \in Lines : data[i].word = data[j].word => ~Linked(i, j)

\* C3: at the end of a detection pass the rhyme graph is symmetric: j is in
\* rhymes[i] exactly when i is in rhymes[j]
C3_Symmetric == \A i, j \in Lines : Linked(i, j) <=> Linked(j, i)

\* a detection pass that linked lines in the first window loop, in the
\* closure step and in the second window loop has ended
C3_Witness ==
    /\ detected.direct # {}
    /\ \E i, j \in Lines : ClosureLink(i, j)

\* a detection pass whose second window loop linked lines has ended
C3_NgramWitness == detected.ngrams # {}

\* the last detection pass ran its first window loop only: ngram is 0
PhaseOneOnly == detected.rhymes # <<>> /\ cfg.ngram = 0

\* C20: at the end of a detection pass that uses the first window loop only
\* the rhyme graph is transitively closed
C20_TransitivelyClosed ==
    PhaseOneOnly =>
        \A a, b, c \in Lines :
            (a # b /\ b # c /\ a # c /\ Linked(a, b) /\ Linked(b, c)) => Linked(a, c)

\* C21: the second window loop runs for line i only when i has no rhymes;
\* it links i with j only when j has none; and a link adds j to rhymes[i]
\* and i to rhymes[j] and nothing else
C21_FallbackLinks ==
    /\ \A e \in detected.fallback : e[2] = {}
    /\ \A l \in detected.links :
          /\ l.before[l.pair[2]] = {}
          /\ l.after = [k \in DOMAIN l.before |->
                           IF k = l.pair[1] THEN l.before[k] \cup {l.pair[2]}
                           ELSE IF k = l.pair[2] THEN l.before[k] \cup {l.pair[1]}
                           ELSE l.before[k]]

\* a detection pass has ended in which the second window loop ran for a
\* line and linked it
C21_Witness ==
    \E l \in detected.links :
        /\ <<l.pair[1], {}>> \in detected.fallback
        /\ Linked(l.pair[1], l.pair[2])

\* the pairs that a score linked, in the first or the second window loop
ScoredLinks == detected.direct \cup detected.ngrams

RECURSIVE Chained(_)
\* the lines that a path of scored links connects with a line of S
Chained(S) ==
    LET more == {k \in Lines : \E x \in S : {<<x, k>>, <<k, x>>} \cap ScoredLinks # {}}
    IN  IF more \subseteq S THEN S ELSE Chained(S \cup more)

\* C22: every pair that a score linked has 1 <= j - i <= window; lines
\* farther apart are linked only by the closure step, and a path of scored
\* links connects them
C22_WithinWindow ==
    /\ \A p \in ScoredLinks : 1 <= p[2] - p[1] /\ p[2] - p[1] <= cfg.window
    /\ \A i, j \in Lines :
          (Linked(i, j) /\ j - i > cfg.window) =>
              ClosureLink(i, j) /\ j \in Chained({i})

\* a detection pass has linked two lines that are farther apart than window
C22_Witness == \E i, j \in Lines : Linked(i, j) /\ j - i > cfg.window

\* C23: every score that _rhyme_score or _ngram_score returns to a detection
\* pass lies in [0,1], also in a tag call that overrides length_penalty
C23_ScoresInUnitInterval ==
    \A s \in detected.scores : RatLeq(Zero, s.score) /\ RatLeq(s.score, One)

\* reduplicant_length mod 2 of line i, doubled: reduplicant_length is half
\* the component count
Parity(i) == data[i].count % 4

\* C24: under a length_penalty in [0,1], length_coef of a score call differs
\* from 1 if and only if the parities of the two reduplicant lengths differ
C24_CoefIffParitiesDiffer ==
    (RatLeq(Zero, cfg.length_penalty) /\ RatLeq(cfg.length_penalty, One)) =>
        \A s \in detected.scores :
            s.coef # One <=> Parity(s.pair[1]) # Parity(s.pair[2])

\* the last operation was a tag call that raised nothing and stripped no
\* radif: self.data holds the records of the lines of its poem
TaggedWhole == result.op = "tag" /\ result.status = "ok" /\ ~StripsRadif(cfg)

\* the split sequence of line i of the poem of the tag call: the components
\* before truncation
SplitOf(i) ==
    PopEmpty(SplitFrom(AfterStress(Transcription(Flatten(result.args.poem)[i]),
                                   cfg.vowel_length, cfg.stress), 1, 1))

\* C27: the fingerprint of a line has at most syll_max*2 components, it is
\* the reversed tail of the split sequence, and reduplicant_length is half
\* the number of components of the split sequence
C27_FingerprintBounded ==
    TaggedWhole =>
        \A i \in DOMAIN data :
            /\ Len(data[i].snds) <= cfg.syll_max * 2
            /\ Len(data[i].snds) <= Len(SplitOf(i))
            /\ data[i].snds = Reverse(LastK(SplitOf(i), Len(data[i].snds)))
            /\ data[i].count = Len(SplitOf(i))

\* the chains of the list output that hold line i
ChainsOf(output, i) ==
    {idx \in 1..Len(output) : \E x \in 1..Len(output[idx]) : output[idx][x] = Index(i)}

\* C30: in every list of chains that output format 2 can return for the
\* rhyme graph of a detection pass, a line is in at most one chain, and in
\* exactly one when it has a rhyme
C30_ChainsDisjoint ==
    \A output \in Outputs(detected.rhymes, 2) :
        \A i \in Lines :
            /\ Cardinality(ChainsOf(output, i)) <= 1
            /\ detected.rhymes[i] # {} => Cardinality(ChainsOf(output, i)) = 1

\* the lines i and j are of the same poem, and of the same stanza when
\* stanza_limit is set
SamePoem(i, j) ==
    /\ data[i].poem = data[j].poem
    /\ cfg.stanza_limit => data[i].stanza = data[j].stanza

\* the last operation was train_model and it got past its checks
Training ==
    /\ result.op = "train_model"
    /\ result.status \notin {"EmptyCorpus", "AttributeError"}

\* C4: every pair of lines that the frequency sweep counts, that a
\* detection pass links or that is passed to _add_to_train_set is of one
\* poem, and of one stanza when stanza_limit is set
C4_NoCrossPairs ==
    /\ Training => \A p \in hist.counted : SamePoem(p[1], p[2])
    /\ \A i, j \in Lines : Linked(i, j) => SamePoem(i, j)
    /\ \A x \in DOMAIN detected.update :
          SamePoem(detected.update[x][1], detected.update[x][2])

\* train_model with stanza_limit on a corpus of two stanzas has counted
\* pairs, linked lines and passed pairs to _add_to_train_set, and lines of
\* different stanzas stand within the window of each other
C4_Witness ==
    /\ Training
    /\ cfg.stanza_limit
    /\ hist.counted # {}
    /\ detected.update # <<>>
    /\ \E i, j \in Lines :
          /\ i < j /\ j <= i + cfg.window
          /\ data[i].poem = data[j].poem /\ data[i].stanza # data[j].stanza
          /\ data[i].word # data[j].word

(***************************************************************************)
(* tag                                                                     *)
(***************************************************************************)

\* the last operation was a tag call that returned a value
Returned == result.op = "tag" /\ result.status = "ok"

\* C2: in output format 3 two lines get the same chain index, other than
\* None, exactly when they are linked in rhymes_detected
C2_AbbaIffLinked ==
    (Returned /\ result.args.output_format = 3) =>
        \A i, j \in Lines :
            i # j => ((/\ result.value[i] = result.value[j]
                       /\ result.value[i] # NoChain) <=> Linked(i, j))

\* C5: tag on an object on which neither load_model nor train_model has
\* completed raises 'No model loaded'
C5_TagNeedsModel ==
    (result.op = "tag" /\ ~hist.prepared) => result.status = "NoModelLoaded"

\* C8: tag returns what it returns as the first tag call after load_model,
\* whatever tag calls came in between
C8_TagsIndependent ==
    (Returned /\ hist.model.valid) =>
        result.value \in TagCall(hist.model.cfg, hist.model.probs, result.args.poem,
                                 result.args.output_format,
                                 result.args.overrides).values

(***************************************************************************)
(* save_model and load_model                                               *)
(***************************************************************************)

\* the entries of probability tables: keyspace, pair, probability
Entries(p) == UNION {{<<k, pair, p[k][pair]>> : pair \in DOMAIN p[k]} : k \in DOMAIN p}

\* the last operation was load_model, of the file that save_model wrote
Loaded == result.op = "load_model"

\* C6: after save_model and load_model self.probs has the entries that
\* were saved, under the same keys
C6_ProbsRoundTrip == Loaded => Entries(probs) = Entries(file.saved.probs)

\* C7: after save_model and load_model every persisted setting has the
\* value it had when save_model was called
C7_SettingsRoundTrip ==
    Loaded => \A k \in PersistedSettings : cfg[k] = file.saved.cfg[k]

(***************************************************************************)
(* train_model                                                             *)
(***************************************************************************)

\* C13: train_model on an engine with no lines raises the empty-corpus error
\* and leaves self.f, self.n, self.train_set and self.probs as they were
C13_EmptyCorpusFails ==
    [][(pc = "idle" /\ result'.op = "train_model" /\ Len(data) = 0) =>
          /\ result'.status = "EmptyCorpus"
          /\ UNCHANGED <<f, n, train_set, probs, probs_previous>>]_vars

\* train_model has raised the empty-corpus error on an engine that
\* new_model has given its tables
C13_Witness ==
    /\ result.op = "train_model" /\ result.status = "EmptyCorpus"
    /\ "freq" \in attrs /\ Len(data) = 0

\* the numbers of estimator runs and detection passes of train_model stay
\* within max_iter and max_iter - 1 (0 for max_iter = 0); it stops when it
\* has made its announcement; when it has returned, it has announced one of
\* 'equilibrium' and 'no equilibrium' if max_iter >= 1; and after 'no
\* equilibrium' there were max_iter estimator runs and no detection pass
\* after the last
TrainBounds ==
    Training =>
        /\ hist.estimator_runs <= cfg.max_iter
        /\ hist.detection_runs <= IF cfg.max_iter = 0 THEN 0 ELSE cfg.max_iter - 1
        /\ hist.detection_runs <= hist.estimator_runs
        /\ Len(hist.announced) <= 1
        /\ hist.announced # <<>> => pc = "idle"
        /\ (result.status = "ok" /\ cfg.max_iter >= 1) => Len(hist.announced) = 1
        /\ hist.announced = <<"no equilibrium">> =>
              /\ hist.estimator_runs = cfg.max_iter
              /\ hist.detection_runs = cfg.max_iter - 1

\* a step inside train_model is a run of the estimator or a detection pass
TrainProgress ==
    pc # "idle" =>
        hist'.estimator_runs + hist'.detection_runs
            = hist.estimator_runs + hist.detection_runs + 1

\* C9: train_model terminates: every step inside it is one more estimator
\* run or detection pass, and there are at most max_iter of the first and
\* max_iter - 1 of the second; for max_iter >= 1 it announces exactly one of
\* 'equilibrium' and 'no equilibrium' before it returns, and nothing is
\* rebuilt after 'no equilibrium'
C9_TrainTerminates == []TrainBounds /\ [][TrainProgress]_vars

\* train_model has returned after max_iter = MaxIter estimator runs with
\* 'no equilibrium'
C9_Witness ==
    /\ Training
    /\ result.status = "ok"
    /\ cfg.max_iter = MaxIter
    /\ hist.estimator_runs = MaxIter
    /\ hist.announced = <<"no equilibrium">>

\* train_model has returned with 'equilibrium'
C9_EquilibriumReached ==
    Training /\ result.status = "ok" /\ hist.announced = <<"equilibrium">>

\* the last step was a run of the estimator, after a detection pass, that
\* raised nothing
EstimatorRan ==
    /\ Training
    /\ result.status \in {"ok", "running"}
    /\ hist.estimator_runs > hist.detection_runs
    /\ hist.detection_runs >= 1

\* C16: the training set that an update-mode detection pass leaves holds the
\* counts that this pass added and nothing else: neither the collocation
\* seeds nor the counts of earlier passes
C16_TrainSetRebuilt ==
    [][(pc = "detect" /\ result'.status \in {"ok", "running"}) =>
          train_set' =
              UpdateTrainSet([f |-> f, order |-> wp_order, train_set |-> EmptyDict,
                              error |-> "ok"],
                             detected'.update, data, rhyme_vocab).train_set]_vars

RECURSIVE AddOnes(_, _)
\* the training set ts after the n-gram pair and the component pairs, at
\* every position that both words have, of every line pair of pairs were
\* raised by 1
AddOnes(ts, pairs) ==
    IF pairs = <<>> THEN ts
    ELSE LET e1 == rhyme_vocab[data[Head(pairs)[1]].word]
             e2 == rhyme_vocab[data[Head(pairs)[2]].word]
         IN  AddOnes(AddComponentPairs(Inc2(ts, G, SortedPair(e1.ngram, e2.ngram), 1),
                                       e1.snds, e2.snds, 1, 1),
                     Tail(pairs))

\* C17: an update-mode detection pass calls _add_to_train_set once for every
\* unordered pair of linked lines, and every call raises the n-gram pair
\* count and the component-pair count of every common position by 1
C17_UpdateAddsOne ==
    [][(pc = "detect" /\ result'.status \in {"ok", "running"}) =>
          /\ \A i, j \in DOMAIN detected'.rhymes :
                (i < j /\ j \in detected'.rhymes[i]) =>
                    Cardinality({x \in DOMAIN detected'.update :
                                    detected'.update[x] = <<i, j>>}) = 1
          /\ \A x \in DOMAIN detected'.update :
                /\ detected'.update[x][1] < detected'.update[x][2]
                /\ detected'.update[x][2] \in detected'.rhymes[detected'.update[x][1]]
          /\ train_set' = AddOnes(train_set, detected'.update)]_vars

\* the pair keys of the tables of d, a dictionary of dictionaries, under
\* the keys ks
PairKeys(d, ks) == UNION {DOMAIN d[k] : k \in ks \cap DOMAIN d}

\* only new_model, add_to_model and train_model have been called
OnlyTrained == hist.tags = 0 /\ hist.saves = 0

\* C18: every pair key of f_wp, of the training set and of the probability
\* tables is sorted: its first element is not above its second
C18_PairKeysSorted ==
    OnlyTrained =>
        \A key \in PairKeys(f, {KWP}) \cup PairKeys(train_set, DOMAIN train_set)
                        \cup PairKeys(probs, DOMAIN probs) :
            key = SortedPair(key[1], key[2])

\* C19: self.f and self.n are as the frequency sweep left them after the
\* collocation step, and every estimator run and detection pass leaves
\* them as they were: the same keys and the same counts
C19_FrequenciesFixed ==
    [][/\ (pc = "idle" /\ result'.op = "train_model"
            /\ result'.status \in {"ok", "running"}) =>
              /\ f' = OverallFrequencies(f, n, wp_order, data, rhyme_vocab, cfg).f
              /\ n' = OverallFrequencies(f, n, wp_order, data, rhyme_vocab, cfg).n
       /\ pc # "idle" => UNCHANGED <<f, n>>]_vars

\* p + q and p / q (q > 0) of rationals
RatSum(p, q) == Frac(p[1] * q[2] + q[1] * p[2], p[2] * q[2])
RatQuot(p, q) == Frac(p[1] * q[2], p[2] * q[1])

\* ft_ab / (ft_ab + fc_a * fc_b) for the pair k of the keyspace x
EstimateOf(x, k) ==
    LET ft == Frac(train_set[x][k], SumValues(train_set[x]))
        fca == Frac(Get(Get(f, x, EmptyDict), k[1], 0), n[x])
        fcb == Frac(Get(Get(f, x, EmptyDict), k[2], 0), n[x])
    IN  RatQuot(ft, RatSum(ft, RatMul(fca, fcb)))

\* C25: a run of the estimator that raises nothing leaves tables with the
\* keyspaces of the training set, every keyspace x with the pair keys of
\* t_x and the values ft_ab / (ft_ab + fc_a * fc_b), which lie in [0,1]
C25_EstimatorFormula ==
    [][(pc = "estimate" /\ result'.status \in {"ok", "running"}) =>
          /\ DOMAIN probs' = DOMAIN train_set
          /\ \A x \in DOMAIN train_set :
                /\ DOMAIN probs'[x] = DOMAIN train_set[x]
                /\ \A k \in DOMAIN train_set[x] :
                      /\ probs'[x][k] = EstimateOf(x, k)
                      /\ RatLeq(Zero, probs'[x][k])
                      /\ RatLeq(probs'[x][k], One)]_vars

\* the estimator has just run and left a value strictly between 0 and 1
C25_Witness ==
    /\ Training
    /\ result.status \in {"ok", "running"}
    /\ hist.estimator_runs > hist.detection_runs
    /\ \E x \in DOMAIN probs : \E k \in DOMAIN probs[x] :
          RatLess(Zero, probs[x][k]) /\ RatLess(probs[x][k], One)

\* the step is train_model up to its loop and it raised nothing
CollocationStep ==
    pc = "idle" /\ result'.op = "train_model" /\ result'.status \in {"ok", "running"}

\* l > r * sqrt(q) for integers l, r and q >= 0
AboveRoot(l, r, q) ==
    IF r >= 0 THEN l > 0 /\ l * l > r * r * q ELSE l >= 0 \/ l * l < r * r * q

\* (fxy - fx*fy/N) / sqrt(fxy) > t_score_min, for fxy > 0 and N > 0
TScoreOver(fxy, fx, fy, N, t_score_min) ==
    AboveRoot((fxy * N - fx * fy) * t_score_min[2], t_score_min[1] * N, fxy)

\* the pair that the word pair k gives the keyspace x of the training set:
\* the final n-grams for 'g', the components at position x when both words
\* have it
PairsAt(k, x) ==
    LET a == rhyme_vocab[k[1]]
        b == rhyme_vocab[k[2]]
    IN  IF x = G THEN {SortedPair(a.ngram, b.ngram)}
        ELSE IF x[2] + 1 <= Len(a.snds) /\ x[2] + 1 <= Len(b.snds)
        THEN {SortedPair(a.snds[x[2] + 1], b.snds[x[2] + 1])}
        ELSE {}

C28_PositiveTotals ==
    [][pc = "estimate" =>
          /\ \A x \in DOMAIN train_set :
                SumValues(train_set[x]) > 0 /\ Get(n, x, 0) > 0
          /\ result'.status # "ZeroDivisionError"]_vars

\* the train_model call that has just returned began on the engine as the
\* train_model call before it left it
TrainedAgain == Training /\ result.status = "ok" /\ hist.before.valid

\* C11: a second train_model call, with no add_to_model call in between,
\* leaves the probability tables equal to the tables after the first call
C11_TrainIdempotent ==
    TrainedAgain => Entries(probs) = Entries(hist.before.probs)

\* C10: 'equilibrium' is announced after a run of the estimator exactly when
\* the run left every entry of the tables as it was after the run before
C10_EquilibriumIffUnchanged ==
    EstimatorRan =>
        (hist.announced = <<"equilibrium">> <=> Entries(probs) = Entries(probs_previous))

====
